---- MODULE Spec2Model ----
(***************************************************************************)
(* Behaviour-tree engine of simple_bt: node values, the tick of every      *)
(* composite, and the BehaviorRunner that drives a tree one tick at a      *)
(* time.  A node is an immutable value; a tick maps (node, context) to a   *)
(* result, a continuation (when Running) and the context it leaves.        *)
(***************************************************************************)
EXTENDS Integers, Sequences, FiniteSets, TLC

\* ------------------------------------------------------------- bounds
MaxCalls == 5       \* proceed calls followed in one behaviour
MaxChildren == 3    \* children of an enumerated Sequence / Selector
MaxGates == 2       \* children of an enumerated composite over gated leaves
MaxLimit == 3       \* largest limit of an enumerated LimitedRepeated
MaxSteps == 2       \* Running ticks of an enumerated SucceedAfterSteps

\* ------------------------------------------------------------- values
\* Option::None of a resumption slot / an absent continuation.
None == [kind |-> "None"]

\* NodeResult: Running(next) | Success | Failure, with the context the tick
\* leaves and the child ticks (ev) the node made, in order.
Result(res, next, ctx, ev) == [res |-> res, next |-> next, ctx |-> ctx, ev |-> ev]

\* One child tick made by a composite: the child's index in the composite,
\* whether the original child (fresh) or a stored continuation was ticked,
\* the node ticked, what it reported, the continuation it returned and its
\* own child ticks.
Event(idx, fresh, node, r) ==
    [idx |-> idx, fresh |-> fresh, node |-> node, res |-> r.res, next |-> r.next,
     sub |-> r.ev]

\* ------------------------------------------------------------- leaves
TwoStepPush(payload, fail, step) ==
    [kind |-> "TwoStepPush", payload |-> payload, fail |-> fail, step |-> step]

Push1 == [kind |-> "Push1"]

SucceedAfterSteps(steps, step) ==
    [kind |-> "SucceedAfterSteps", steps |-> steps, step |-> step]

PaydayWait(index, payload, time, terminal) ==
    [kind |-> "PaydayWait", index |-> index, payload |-> payload,
     time |-> time, terminal |-> terminal]

FibPush == [kind |-> "FibPush"]

IsCapped(cap) == [kind |-> "IsCapped", cap |-> cap]

\* Context { stack } of the push tests and Diem { day, paydays } of the
\* parallel tests.
Context(stack) == [stack |-> stack]
Diem(day, paydays) == [day |-> day, paydays |-> paydays]

TwoStepPushTick(n, ctx) ==
    IF n.step < 1
    THEN Result("Running", TwoStepPush(n.payload, n.fail, n.step + 1), ctx, <<>>)
    ELSE LET c == [ctx EXCEPT !.stack = Append(@, n.payload)]
         IN IF n.fail THEN Result("Failure", None, c, <<>>)
                      ELSE Result("Success", None, c, <<>>)

Push1Tick(n, ctx) ==
    Result("Success", None, [ctx EXCEPT !.stack = Append(@, 1)], <<>>)

SucceedAfterStepsTick(n, ctx) ==
    IF n.step < n.steps
    THEN Result("Running", SucceedAfterSteps(n.steps, n.step + 1), ctx, <<>>)
    ELSE Result("Success", None, ctx, <<>>)

FibPushTick(n, ctx) ==
    LET len == Len(ctx.stack)
        pushed == IF len < 2 THEN 1 ELSE ctx.stack[len - 1] + ctx.stack[len]
    IN Result("Success", None, [ctx EXCEPT !.stack = Append(@, pushed)], <<>>)

IsCappedTick(n, ctx) ==
    IF \E i \in 1..Len(ctx.stack) : ctx.stack[i] > n.cap
    THEN Result("Failure", None, ctx, <<>>)
    ELSE Result("Success", None, ctx, <<>>)

abs_diff(a, b) == IF a >= b THEN a - b ELSE b - a

PaydayWaitTick(n, ctx) ==
    IF n.time < ctx.day
    THEN LET paydays == ctx.paydays
             size_diff == abs_diff(n.index, Len(paydays))
             extended == IF Len(paydays) <= n.index
                         THEN paydays \o [i \in 1..(size_diff + 1) |-> 0]
                         ELSE paydays
             written == [extended EXCEPT ![n.index + 1] = n.payload]
             c == [ctx EXCEPT !.paydays = written]
         IN IF n.terminal THEN Result("Failure", None, c, <<>>)
                          ELSE Result("Success", None, c, <<>>)
    ELSE Result("Running", n, ctx, <<>>)

\* ------------------------------------------------------------- composites
Sequence(sub) == [kind |-> "Sequence", sub |-> sub]
SequenceResume(seq, index, resume) ==
    [kind |-> "SequenceResume", seq |-> seq, resume |-> resume, index |-> index]
Selector(sub) == [kind |-> "Selector", sub |-> sub]
SelectorResume(seq, index, resume) ==
    [kind |-> "SelectorResume", seq |-> seq, resume |-> resume, index |-> index]
ParallelSequence(sub) == [kind |-> "ParallelSequence", sub |-> sub]
ParallelSelector(sub) == [kind |-> "ParallelSelector", sub |-> sub]
Repeated(resume, child) == [kind |-> "Repeated", resume |-> resume, child |-> child]
LimitedRepeated(child, limit, completed, resume) ==
    [kind |-> "LimitedRepeated", child |-> child, limit |-> limit,
     completed |-> completed, resume |-> resume]
RepeatedUntilFailure(resume, child) ==
    [kind |-> "RepeatedUntilFailure", resume |-> resume, child |-> child]
Inverter(child) == [kind |-> "Inverter", child |-> child]
Succeeder(child) == [kind |-> "Succeeder", child |-> child]

RECURSIVE Tick(_, _)
RECURSIVE SequenceLoop(_, _, _, _)
RECURSIVE SequenceResumeLoop(_, _, _, _)
RECURSIVE SelectorLoop(_, _, _, _)
RECURSIVE SelectorResumeLoop(_, _, _, _)
RECURSIVE ParallelSequenceLoop(_, _, _, _, _)
RECURSIVE ParallelSelectorLoop(_, _, _, _, _)

\* Mutant: a child Failure does not end the scan.
SequenceLoop_IgnoresFailure(sub, idx, ctx, ev) ==
    IF idx >= Len(sub)
    THEN Result("Success", None, ctx, ev)
    ELSE LET r == Tick(sub[idx + 1], ctx)
             e == Append(ev, Event(idx, TRUE, sub[idx + 1], r))
         IN CASE r.res = "Success" -> SequenceLoop(sub, idx + 1, r.ctx, e)
              [] r.res = "Failure" -> SequenceLoop(sub, idx + 1, r.ctx, e)
              [] r.res = "Running" ->
                   Result("Running", SequenceResume(sub, idx, r.next), r.ctx, e)

\* for (idx, sub) in self.sub.iter().enumerate(), from child idx on.
SequenceLoop(sub, idx, ctx, ev) ==
    IF idx >= Len(sub)
    THEN Result("Success", None, ctx, ev)
    ELSE LET r == Tick(sub[idx + 1], ctx)
             e == Append(ev, Event(idx, TRUE, sub[idx + 1], r))
         IN CASE r.res = "Success" -> SequenceLoop(sub, idx + 1, r.ctx, e)
              [] r.res = "Failure" -> Result("Failure", None, r.ctx, e)
              [] r.res = "Running" ->
                   Result("Running", SequenceResume(sub, idx, r.next), r.ctx, e)

SequenceTick(n, ctx) == SequenceLoop(n.sub, 0, ctx, <<>>)

\* Mutant: the scan stops one child early.
SequenceResumeLoop_OffByOne(seq, idx, ctx, ev) ==
    IF idx + 1 >= Len(seq)
    THEN Result("Success", None, ctx, ev)
    ELSE LET r == Tick(seq[idx + 1], ctx)
             e == Append(ev, Event(idx, TRUE, seq[idx + 1], r))
         IN CASE r.res = "Success" -> SequenceResumeLoop(seq, idx + 1, r.ctx, e)
              [] r.res = "Failure" -> Result("Failure", None, r.ctx, e)
              [] r.res = "Running" ->
                   Result("Running", SequenceResume(seq, idx, r.next), r.ctx, e)

\* for (idx, sub) in self.seq.iter().enumerate().skip(self.index + 1)
SequenceResumeLoop(seq, idx, ctx, ev) ==
    IF idx >= Len(seq)
    THEN Result("Success", None, ctx, ev)
    ELSE LET r == Tick(seq[idx + 1], ctx)
             e == Append(ev, Event(idx, TRUE, seq[idx + 1], r))
         IN CASE r.res = "Success" -> SequenceResumeLoop(seq, idx + 1, r.ctx, e)
              [] r.res = "Failure" -> Result("Failure", None, r.ctx, e)
              [] r.res = "Running" ->
                   Result("Running", SequenceResume(seq, idx, r.next), r.ctx, e)

\* Mutant: after the continuation succeeds the scan restarts at child 0
\* (the skip is lost).
SequenceResumeTick_Rescans(n, ctx) ==
    LET r == Tick(n.resume, ctx)
        e == <<Event(n.index, FALSE, n.resume, r)>>
    IN CASE r.res = "Success" -> SequenceResumeLoop(n.seq, 0, r.ctx, e)
         [] r.res = "Failure" -> Result("Failure", None, r.ctx, e)
         [] r.res = "Running" ->
              Result("Running", SequenceResume(n.seq, n.index, r.next), r.ctx, e)

SequenceResumeTick(n, ctx) ==
    LET r == Tick(n.resume, ctx)
        e == <<Event(n.index, FALSE, n.resume, r)>>
    IN CASE r.res = "Success" -> SequenceResumeLoop(n.seq, n.index + 1, r.ctx, e)
         [] r.res = "Failure" -> Result("Failure", None, r.ctx, e)
         [] r.res = "Running" ->
              Result("Running", SequenceResume(n.seq, n.index, r.next), r.ctx, e)

\* Mutant: a child Failure ends the scan with Failure, as in a Sequence.
SelectorLoop_FailsFast(sub, idx, ctx, ev) ==
    IF idx >= Len(sub)
    THEN Result("Failure", None, ctx, ev)
    ELSE LET r == Tick(sub[idx + 1], ctx)
             e == Append(ev, Event(idx, TRUE, sub[idx + 1], r))
         IN CASE r.res = "Failure" -> Result("Failure", None, r.ctx, e)
              [] r.res = "Success" -> Result("Success", None, r.ctx, e)
              [] r.res = "Running" ->
                   Result("Running", SelectorResume(sub, idx, r.next), r.ctx, e)

\* for (idx, sub) in self.sub.iter().enumerate(), from child idx on.
SelectorLoop(sub, idx, ctx, ev) ==
    IF idx >= Len(sub)
    THEN Result("Failure", None, ctx, ev)
    ELSE LET r == Tick(sub[idx + 1], ctx)
             e == Append(ev, Event(idx, TRUE, sub[idx + 1], r))
         IN CASE r.res = "Failure" -> SelectorLoop(sub, idx + 1, r.ctx, e)
              [] r.res = "Success" -> Result("Success", None, r.ctx, e)
              [] r.res = "Running" ->
                   Result("Running", SelectorResume(sub, idx, r.next), r.ctx, e)

SelectorTick(n, ctx) == SelectorLoop(n.sub, 0, ctx, <<>>)

\* Mutant: the scan after a resumption ends on a child Failure, as a
\* Sequence does.
SelectorResumeLoop_FailsFast(seq, idx, ctx, ev) ==
    IF idx >= Len(seq)
    THEN Result("Failure", None, ctx, ev)
    ELSE LET r == Tick(seq[idx + 1], ctx)
             e == Append(ev, Event(idx, TRUE, seq[idx + 1], r))
         IN CASE r.res = "Failure" -> Result("Failure", None, r.ctx, e)
              [] r.res = "Success" -> Result("Success", None, r.ctx, e)
              [] r.res = "Running" ->
                   Result("Running", SelectorResume(seq, idx, r.next), r.ctx, e)

SelectorResumeLoop(seq, idx, ctx, ev) ==
    IF idx >= Len(seq)
    THEN Result("Failure", None, ctx, ev)
    ELSE LET r == Tick(seq[idx + 1], ctx)
             e == Append(ev, Event(idx, TRUE, seq[idx + 1], r))
         IN CASE r.res = "Failure" -> SelectorResumeLoop(seq, idx + 1, r.ctx, e)
              [] r.res = "Success" -> Result("Success", None, r.ctx, e)
              [] r.res = "Running" ->
                   Result("Running", SelectorResume(seq, idx, r.next), r.ctx, e)

\* Mutant: a continuation that succeeds does not end the Selector; the scan
\* goes on with the next child.
SelectorResumeTick_ScansOn(n, ctx) ==
    LET r == Tick(n.resume, ctx)
        e == <<Event(n.index, FALSE, n.resume, r)>>
    IN CASE r.res = "Failure" -> SelectorResumeLoop(n.seq, n.index + 1, r.ctx, e)
         [] r.res = "Success" -> SelectorResumeLoop(n.seq, n.index + 1, r.ctx, e)
         [] r.res = "Running" ->
              Result("Running", SelectorResume(n.seq, n.index, r.next), r.ctx, e)

\* Mutant: after the continuation fails the scan restarts at child 0.
SelectorResumeTick_Rescans(n, ctx) ==
    LET r == Tick(n.resume, ctx)
        e == <<Event(n.index, FALSE, n.resume, r)>>
    IN CASE r.res = "Failure" -> SelectorResumeLoop(n.seq, 0, r.ctx, e)
         [] r.res = "Success" -> Result("Success", None, r.ctx, e)
         [] r.res = "Running" ->
              Result("Running", SelectorResume(n.seq, n.index, r.next), r.ctx, e)

SelectorResumeTick(n, ctx) ==
    LET r == Tick(n.resume, ctx)
        e == <<Event(n.index, FALSE, n.resume, r)>>
    IN CASE r.res = "Failure" -> SelectorResumeLoop(n.seq, n.index + 1, r.ctx, e)
         [] r.res = "Success" -> Result("Success", None, r.ctx, e)
         [] r.res = "Running" ->
              Result("Running", SelectorResume(n.seq, n.index, r.next), r.ctx, e)

\* Mutant: the continuation keeps the whole working set (the node itself).
ParallelSequenceLoop_KeepsAll(sub, idx, new_children, ctx, ev) ==
    IF idx >= Len(sub)
    THEN IF new_children = <<>>
         THEN Result("Success", None, ctx, ev)
         ELSE Result("Running", ParallelSequence(sub), ctx, ev)
    ELSE LET r == Tick(sub[idx + 1], ctx)
             e == Append(ev, Event(idx, TRUE, sub[idx + 1], r))
         IN CASE r.res = "Failure" -> Result("Failure", None, r.ctx, e)
              [] r.res = "Success" ->
                   ParallelSequenceLoop(sub, idx + 1, new_children, r.ctx, e)
              [] r.res = "Running" ->
                   ParallelSequenceLoop(sub, idx + 1, Append(new_children, r.next),
                                        r.ctx, e)

\* Mutant: a child Failure drops the child, as in ParallelSelector.
ParallelSequenceLoop_DropsFailure(sub, idx, new_children, ctx, ev) ==
    IF idx >= Len(sub)
    THEN IF new_children = <<>>
         THEN Result("Success", None, ctx, ev)
         ELSE Result("Running", ParallelSequence(new_children), ctx, ev)
    ELSE LET r == Tick(sub[idx + 1], ctx)
             e == Append(ev, Event(idx, TRUE, sub[idx + 1], r))
         IN CASE r.res = "Failure" ->
                   ParallelSequenceLoop(sub, idx + 1, new_children, r.ctx, e)
              [] r.res = "Success" ->
                   ParallelSequenceLoop(sub, idx + 1, new_children, r.ctx, e)
              [] r.res = "Running" ->
                   ParallelSequenceLoop(sub, idx + 1, Append(new_children, r.next),
                                        r.ctx, e)

\* for child in self.sub.iter(), collecting the Running continuations.
ParallelSequenceLoop(sub, idx, new_children, ctx, ev) ==
    IF idx >= Len(sub)
    THEN IF new_children = <<>>
         THEN Result("Success", None, ctx, ev)
         ELSE Result("Running", ParallelSequence(new_children), ctx, ev)
    ELSE LET r == Tick(sub[idx + 1], ctx)
             e == Append(ev, Event(idx, TRUE, sub[idx + 1], r))
         IN CASE r.res = "Failure" -> Result("Failure", None, r.ctx, e)
              [] r.res = "Success" ->
                   ParallelSequenceLoop(sub, idx + 1, new_children, r.ctx, e)
              [] r.res = "Running" ->
                   ParallelSequenceLoop(sub, idx + 1, Append(new_children, r.next),
                                        r.ctx, e)

ParallelSequenceTick(n, ctx) == ParallelSequenceLoop(n.sub, 0, <<>>, ctx, <<>>)

\* Mutant: a child Success does not end the tick; the child is dropped.
ParallelSelectorLoop_IgnoresSuccess(sub, idx, new_children, ctx, ev) ==
    IF idx >= Len(sub)
    THEN IF new_children = <<>>
         THEN Result("Failure", None, ctx, ev)
         ELSE Result("Running", ParallelSelector(new_children), ctx, ev)
    ELSE LET r == Tick(sub[idx + 1], ctx)
             e == Append(ev, Event(idx, TRUE, sub[idx + 1], r))
         IN CASE r.res = "Success" ->
                   ParallelSelectorLoop(sub, idx + 1, new_children, r.ctx, e)
              [] r.res = "Failure" ->
                   ParallelSelectorLoop(sub, idx + 1, new_children, r.ctx, e)
              [] r.res = "Running" ->
                   ParallelSelectorLoop(sub, idx + 1, Append(new_children, r.next),
                                        r.ctx, e)

\* Mutant: a working set that ends with nothing Running resolves to Success,
\* as in ParallelSequence.
ParallelSelectorLoop_EndsInSuccess(sub, idx, new_children, ctx, ev) ==
    IF idx >= Len(sub)
    THEN IF new_children = <<>>
         THEN Result("Success", None, ctx, ev)
         ELSE Result("Running", ParallelSelector(new_children), ctx, ev)
    ELSE LET r == Tick(sub[idx + 1], ctx)
             e == Append(ev, Event(idx, TRUE, sub[idx + 1], r))
         IN CASE r.res = "Success" -> Result("Success", None, r.ctx, e)
              [] r.res = "Failure" ->
                   ParallelSelectorLoop(sub, idx + 1, new_children, r.ctx, e)
              [] r.res = "Running" ->
                   ParallelSelectorLoop(sub, idx + 1, Append(new_children, r.next),
                                        r.ctx, e)

ParallelSelectorLoop(sub, idx, new_children, ctx, ev) ==
    IF idx >= Len(sub)
    THEN IF new_children = <<>>
         THEN Result("Failure", None, ctx, ev)
         ELSE Result("Running", ParallelSelector(new_children), ctx, ev)
    ELSE LET r == Tick(sub[idx + 1], ctx)
             e == Append(ev, Event(idx, TRUE, sub[idx + 1], r))
         IN CASE r.res = "Success" -> Result("Success", None, r.ctx, e)
              [] r.res = "Failure" ->
                   ParallelSelectorLoop(sub, idx + 1, new_children, r.ctx, e)
              [] r.res = "Running" ->
                   ParallelSelectorLoop(sub, idx + 1, Append(new_children, r.next),
                                        r.ctx, e)

ParallelSelectorTick(n, ctx) == ParallelSelectorLoop(n.sub, 0, <<>>, ctx, <<>>)

\* Mutant: the node ends with its child: a fresh child that terminates makes
\* the node report the child's result.
RepeatedTick_EndsWithChild(n, ctx) ==
    LET r1 == IF n.resume # None THEN Tick(n.resume, ctx) ELSE Result("Skip", None, ctx, <<>>)
        e1 == IF n.resume # None THEN <<Event(0, FALSE, n.resume, r1)>> ELSE <<>>
    IN IF r1.res = "Running"
       THEN Result("Running", Repeated(r1.next, n.child), r1.ctx, e1)
       ELSE LET r2 == Tick(n.child, r1.ctx)
                e2 == Append(e1, Event(0, TRUE, n.child, r2))
            IN IF r2.res = "Running"
               THEN Result("Running", Repeated(r2.next, n.child), r2.ctx, e2)
               ELSE Result(r2.res, None, r2.ctx, e2)

\* Mutant: when the resumption terminates the tick ends there; the fresh
\* child is left for the next call.
RepeatedTick_RestartsNextCall(n, ctx) ==
    LET r1 == IF n.resume # None THEN Tick(n.resume, ctx) ELSE Result("Skip", None, ctx, <<>>)
        e1 == IF n.resume # None THEN <<Event(0, FALSE, n.resume, r1)>> ELSE <<>>
    IN CASE r1.res = "Running" ->
              Result("Running", Repeated(r1.next, n.child), r1.ctx, e1)
         [] r1.res \in {"Success", "Failure"} ->
              Result("Running", Repeated(None, n.child), r1.ctx, e1)
         [] OTHER ->
              LET r2 == Tick(n.child, r1.ctx)
                  e2 == Append(e1, Event(0, TRUE, n.child, r2))
              IN IF r2.res = "Running"
                 THEN Result("Running", Repeated(r2.next, n.child), r2.ctx, e2)
                 ELSE Result("Running", Repeated(None, n.child), r2.ctx, e2)

RepeatedTick(n, ctx) ==
    LET r1 == IF n.resume # None THEN Tick(n.resume, ctx) ELSE Result("Skip", None, ctx, <<>>)
        e1 == IF n.resume # None THEN <<Event(0, FALSE, n.resume, r1)>> ELSE <<>>
    IN IF r1.res = "Running"
       THEN Result("Running", Repeated(r1.next, n.child), r1.ctx, e1)
       ELSE LET r2 == Tick(n.child, r1.ctx)
                e2 == Append(e1, Event(0, TRUE, n.child, r2))
            IN IF r2.res = "Running"
               THEN Result("Running", Repeated(r2.next, n.child), r2.ctx, e2)
               ELSE Result("Running", Repeated(None, n.child), r2.ctx, e2)

\* Mutant: the entry test is completed > limit.
LimitedRepeatedTick_OffByOne(n, ctx) ==
    IF n.completed > n.limit
    THEN Result("Success", None, ctx, <<>>)
    ELSE LET r1 == IF n.resume # None THEN Tick(n.resume, ctx)
                                      ELSE Result("Skip", None, ctx, <<>>)
             e1 == IF n.resume # None THEN <<Event(0, FALSE, n.resume, r1)>> ELSE <<>>
             completed1 == IF n.resume # None THEN n.completed + 1 ELSE n.completed
         IN IF r1.res = "Running"
            THEN Result("Running",
                        LimitedRepeated(n.child, n.limit, n.completed, r1.next),
                        r1.ctx, e1)
            ELSE LET r2 == Tick(n.child, r1.ctx)
                     e2 == Append(e1, Event(0, TRUE, n.child, r2))
                 IN IF r2.res = "Running"
                    THEN Result("Running",
                                LimitedRepeated(n.child, n.limit, completed1, r2.next),
                                r2.ctx, e2)
                    ELSE Result("Running",
                                LimitedRepeated(n.child, n.limit, completed1 + 1, None),
                                r2.ctx, e2)

\* Mutant: a child Failure is reported as the node's Failure.
LimitedRepeatedTick_PropagatesFailure(n, ctx) ==
    IF n.completed >= n.limit
    THEN Result("Success", None, ctx, <<>>)
    ELSE LET r1 == IF n.resume # None THEN Tick(n.resume, ctx)
                                      ELSE Result("Skip", None, ctx, <<>>)
             e1 == IF n.resume # None THEN <<Event(0, FALSE, n.resume, r1)>> ELSE <<>>
             completed1 == IF n.resume # None THEN n.completed + 1 ELSE n.completed
         IN CASE r1.res = "Running" ->
                   Result("Running",
                          LimitedRepeated(n.child, n.limit, n.completed, r1.next),
                          r1.ctx, e1)
              [] r1.res = "Failure" -> Result("Failure", None, r1.ctx, e1)
              [] OTHER ->
                   LET r2 == Tick(n.child, r1.ctx)
                       e2 == Append(e1, Event(0, TRUE, n.child, r2))
                   IN CASE r2.res = "Running" ->
                             Result("Running",
                                    LimitedRepeated(n.child, n.limit, completed1, r2.next),
                                    r2.ctx, e2)
                        [] r2.res = "Failure" -> Result("Failure", None, r2.ctx, e2)
                        [] OTHER ->
                             Result("Running",
                                    LimitedRepeated(n.child, n.limit, completed1 + 1, None),
                                    r2.ctx, e2)

\* Mutant: a limit of zero is read as no limit.
LimitedRepeatedTick_ZeroUnlimited(n, ctx) ==
    IF n.limit > 0 /\ n.completed >= n.limit
    THEN Result("Success", None, ctx, <<>>)
    ELSE LET r1 == IF n.resume # None THEN Tick(n.resume, ctx)
                                      ELSE Result("Skip", None, ctx, <<>>)
             e1 == IF n.resume # None THEN <<Event(0, FALSE, n.resume, r1)>> ELSE <<>>
             completed1 == IF n.resume # None THEN n.completed + 1 ELSE n.completed
         IN IF r1.res = "Running"
            THEN Result("Running",
                        LimitedRepeated(n.child, n.limit, n.completed, r1.next),
                        r1.ctx, e1)
            ELSE LET r2 == Tick(n.child, r1.ctx)
                     e2 == Append(e1, Event(0, TRUE, n.child, r2))
                 IN IF r2.res = "Running"
                    THEN Result("Running",
                                LimitedRepeated(n.child, n.limit, completed1, r2.next),
                                r2.ctx, e2)
                    ELSE Result("Running",
                                LimitedRepeated(n.child, n.limit, completed1 + 1, None),
                                r2.ctx, e2)

LimitedRepeatedTick(n, ctx) ==
    IF n.completed >= n.limit
    THEN Result("Success", None, ctx, <<>>)
    ELSE LET r1 == IF n.resume # None THEN Tick(n.resume, ctx)
                                      ELSE Result("Skip", None, ctx, <<>>)
             e1 == IF n.resume # None THEN <<Event(0, FALSE, n.resume, r1)>> ELSE <<>>
             completed1 == IF n.resume # None THEN n.completed + 1 ELSE n.completed
         IN IF r1.res = "Running"
            THEN Result("Running",
                        LimitedRepeated(n.child, n.limit, n.completed, r1.next),
                        r1.ctx, e1)
            ELSE LET r2 == Tick(n.child, r1.ctx)
                     e2 == Append(e1, Event(0, TRUE, n.child, r2))
                 IN IF r2.res = "Running"
                    THEN Result("Running",
                                LimitedRepeated(n.child, n.limit, completed1, r2.next),
                                r2.ctx, e2)
                    ELSE Result("Running",
                                LimitedRepeated(n.child, n.limit, completed1 + 1, None),
                                r2.ctx, e2)

\* Mutant: a Failure of the stored resumption is not tested; the fresh child
\* is ticked as after a Success.
RepeatedUntilFailureTick_ResumeFailureIgnored(n, ctx) ==
    LET r1 == IF n.resume # None THEN Tick(n.resume, ctx) ELSE Result("Skip", None, ctx, <<>>)
        e1 == IF n.resume # None THEN <<Event(0, FALSE, n.resume, r1)>> ELSE <<>>
    IN CASE r1.res = "Running" ->
              Result("Running", RepeatedUntilFailure(r1.next, n.child), r1.ctx, e1)
         [] OTHER ->
              LET r2 == Tick(n.child, r1.ctx)
                  e2 == Append(e1, Event(0, TRUE, n.child, r2))
              IN CASE r2.res = "Running" ->
                        Result("Running", RepeatedUntilFailure(r2.next, n.child), r2.ctx, e2)
                   [] r2.res = "Success" ->
                        Result("Running", RepeatedUntilFailure(None, n.child), r2.ctx, e2)
                   [] r2.res = "Failure" -> Result("Success", None, r2.ctx, e2)

\* Mutant: a Success of the stored resumption ends the tick: Running with no
\* resumption, the fresh child left for the next tick.
RepeatedUntilFailureTick_ResumeSuccessRestarts(n, ctx) ==
    LET r1 == IF n.resume # None THEN Tick(n.resume, ctx) ELSE Result("Skip", None, ctx, <<>>)
        e1 == IF n.resume # None THEN <<Event(0, FALSE, n.resume, r1)>> ELSE <<>>
    IN CASE r1.res = "Running" ->
              Result("Running", RepeatedUntilFailure(r1.next, n.child), r1.ctx, e1)
         [] r1.res = "Failure" -> Result("Success", None, r1.ctx, e1)
         [] r1.res = "Success" ->
              Result("Running", RepeatedUntilFailure(None, n.child), r1.ctx, e1)
         [] OTHER ->
              LET r2 == Tick(n.child, r1.ctx)
                  e2 == Append(e1, Event(0, TRUE, n.child, r2))
              IN CASE r2.res = "Running" ->
                        Result("Running", RepeatedUntilFailure(r2.next, n.child), r2.ctx, e2)
                   [] r2.res = "Success" ->
                        Result("Running", RepeatedUntilFailure(None, n.child), r2.ctx, e2)
                   [] r2.res = "Failure" -> Result("Success", None, r2.ctx, e2)

RepeatedUntilFailureTick(n, ctx) ==
    LET r1 == IF n.resume # None THEN Tick(n.resume, ctx) ELSE Result("Skip", None, ctx, <<>>)
        e1 == IF n.resume # None THEN <<Event(0, FALSE, n.resume, r1)>> ELSE <<>>
    IN CASE r1.res = "Running" ->
              Result("Running", RepeatedUntilFailure(r1.next, n.child), r1.ctx, e1)
         [] r1.res = "Failure" -> Result("Success", None, r1.ctx, e1)
         [] OTHER ->
              LET r2 == Tick(n.child, r1.ctx)
                  e2 == Append(e1, Event(0, TRUE, n.child, r2))
              IN CASE r2.res = "Running" ->
                        Result("Running", RepeatedUntilFailure(r2.next, n.child), r2.ctx, e2)
                   [] r2.res = "Success" ->
                        Result("Running", RepeatedUntilFailure(None, n.child), r2.ctx, e2)
                   [] r2.res = "Failure" -> Result("Success", None, r2.ctx, e2)

\* Mutant: Running relays the child's continuation without re-wrapping it.
InverterTick_RelaysUnwrapped(n, ctx) ==
    LET r == Tick(n.child, ctx)
        e == <<Event(0, TRUE, n.child, r)>>
    IN CASE r.res = "Success" -> Result("Failure", None, r.ctx, e)
         [] r.res = "Failure" -> Result("Success", None, r.ctx, e)
         [] r.res = "Running" -> Result("Running", r.next, r.ctx, e)

InverterTick(n, ctx) ==
    LET r == Tick(n.child, ctx)
        e == <<Event(0, TRUE, n.child, r)>>
    IN CASE r.res = "Success" -> Result("Failure", None, r.ctx, e)
         [] r.res = "Failure" -> Result("Success", None, r.ctx, e)
         [] r.res = "Running" -> Result("Running", Inverter(r.next), r.ctx, e)

\* Mutant: Running relays the child's continuation without re-wrapping it.
SucceederTick_RelaysUnwrapped(n, ctx) ==
    IF n.child # None
    THEN LET r == Tick(n.child, ctx)
             e == <<Event(0, TRUE, n.child, r)>>
         IN IF r.res \in {"Failure", "Success"}
            THEN Result("Success", None, r.ctx, e)
            ELSE Result("Running", r.next, r.ctx, e)
    ELSE Result("Success", None, ctx, <<>>)

\* Mutant: a terminal child result hands back the context as it was given,
\* undoing what the child did to it.
SucceederTick_RestoresContext(n, ctx) ==
    IF n.child # None
    THEN LET r == Tick(n.child, ctx)
             e == <<Event(0, TRUE, n.child, r)>>
         IN IF r.res \in {"Failure", "Success"}
            THEN Result("Success", None, ctx, e)
            ELSE Result("Running", Succeeder(r.next), r.ctx, e)
    ELSE Result("Success", None, ctx, <<>>)

SucceederTick(n, ctx) ==
    IF n.child # None
    THEN LET r == Tick(n.child, ctx)
             e == <<Event(0, TRUE, n.child, r)>>
         IN IF r.res \in {"Failure", "Success"}
            THEN Result("Success", None, r.ctx, e)
            ELSE Result("Running", Succeeder(r.next), r.ctx, e)
    ELSE Result("Success", None, ctx, <<>>)

\* Dynamic dispatch of BehaviorNode::tick on the node's kind.
Tick(n, ctx) ==
    CASE n.kind = "TwoStepPush" -> TwoStepPushTick(n, ctx)
      [] n.kind = "Push1" -> Push1Tick(n, ctx)
      [] n.kind = "SucceedAfterSteps" -> SucceedAfterStepsTick(n, ctx)
      [] n.kind = "PaydayWait" -> PaydayWaitTick(n, ctx)
      [] n.kind = "FibPush" -> FibPushTick(n, ctx)
      [] n.kind = "IsCapped" -> IsCappedTick(n, ctx)
      [] n.kind = "Sequence" -> SequenceTick(n, ctx)
      [] n.kind = "SequenceResume" -> SequenceResumeTick(n, ctx)
      [] n.kind = "Selector" -> SelectorTick(n, ctx)
      [] n.kind = "SelectorResume" -> SelectorResumeTick(n, ctx)
      [] n.kind = "ParallelSequence" -> ParallelSequenceTick(n, ctx)
      [] n.kind = "ParallelSelector" -> ParallelSelectorTick(n, ctx)
      [] n.kind = "Repeated" -> RepeatedTick(n, ctx)
      [] n.kind = "LimitedRepeated" -> LimitedRepeatedTick(n, ctx)
      [] n.kind = "RepeatedUntilFailure" -> RepeatedUntilFailureTick(n, ctx)
      [] n.kind = "Inverter" -> InverterTick(n, ctx)
      [] n.kind = "Succeeder" -> SucceederTick(n, ctx)

\* ------------------------------------------------------------- runner
\* What proceed returns: None | Some(true) | Some(false).
RetNone == "None"
SomeTrue == "Some(true)"
SomeFalse == "Some(false)"

is_running(slot) == slot # None

\* Mutant: a Running result does not store the continuation.
tick_node_DropsContinuation(slot, node, ctx) ==
    LET r == Tick(node, ctx)
    IN [current_tick |-> slot,
        ret |-> CASE r.res = "Running" -> RetNone
                  [] r.res = "Success" -> SomeTrue
                  [] r.res = "Failure" -> SomeFalse,
        node |-> node,
        r |-> r]

\* Mutant: a terminal result leaves the node just ticked in the slot.
tick_node_KeepsFinishedNode(slot, node, ctx) ==
    LET r == Tick(node, ctx)
    IN [current_tick |-> IF r.res = "Running" THEN r.next ELSE node,
        ret |-> CASE r.res = "Running" -> RetNone
                  [] r.res = "Success" -> SomeTrue
                  [] r.res = "Failure" -> SomeFalse,
        node |-> node,
        r |-> r]

\* tick_node(&mut self, node, context): slot is self.current_tick on entry.
tick_node(slot, node, ctx) ==
    LET r == Tick(node, ctx)
    IN [current_tick |-> IF r.res = "Running" THEN r.next ELSE slot,
        ret |-> CASE r.res = "Running" -> RetNone
                  [] r.res = "Success" -> SomeTrue
                  [] r.res = "Failure" -> SomeFalse,
        node |-> node,
        r |-> r]

\* Mutant: the slot is read, not taken, so it is still occupied while the
\* continuation is ticked.
proceed_KeepsSlot(root, slot, ctx) ==
    IF slot # None
    THEN tick_node(slot, slot, ctx)
    ELSE tick_node(slot, root, ctx)

\* Mutant: every call ticks the root.
proceed_AlwaysRoot(root, slot, ctx) == tick_node(None, root, ctx)

\* proceed(&mut self, context): current_tick.take() empties the slot before
\* the stored continuation is ticked.
proceed(root, slot, ctx) ==
    IF slot # None
    THEN tick_node(None, slot, ctx)
    ELSE tick_node(slot, root, ctx)

\* ------------------------------------------------------------- trees
\* Days the caller sets between ticks and the thresholds of the gated leaves
\* (parallel tests).
Days == {0, 1, 6, 21}
GateTimes == {0, 5, 13}

\* Leaves over Context { stack }; child number p pushes payload p.
CtxLeaves(p) ==
    {TwoStepPush(p, f, s) : f \in BOOLEAN, s \in 0..1}
        \cup {SucceedAfterSteps(MaxSteps, 0)}

\* Leaves over Diem { day, paydays }; child number p writes slot p - 1.
GateLeaves(p) ==
    {PaydayWait(p - 1, p, t, term) : t \in GateTimes, term \in BOOLEAN}

RECURSIVE CtxSubs(_)
CtxSubs(n) ==
    IF n = 0 THEN {<<>>}
    ELSE {Append(s, l) : s \in CtxSubs(n - 1), l \in CtxLeaves(n)}

RECURSIVE GateSubs(_)
GateSubs(n) ==
    IF n = 0 THEN {<<>>}
    ELSE {Append(s, l) : s \in GateSubs(n - 1), l \in GateLeaves(n)}

CtxLists == UNION {CtxSubs(n) : n \in 0..MaxChildren}
GateLists == UNION {GateSubs(n) : n \in 0..MaxGates}

\* Nodes wrapping one child c the way the constructors build them.
Wrappers(c) ==
    {Inverter(c), Succeeder(c), Repeated(None, c), RepeatedUntilFailure(None, c)}
        \cup {LimitedRepeated(c, l, 0, None) : l \in 0..MaxLimit}

\* Caps of the IsCapped leaf that a short run of FibPush (1, 1, 2, 3) passes.
Caps == {1, 2}

CtxChildren ==
    CtxLeaves(1) \cup {Push1}
        \cup {Sequence(s) : s \in CtxSubs(2)} \cup {Selector(s) : s \in CtxSubs(2)}
        \cup {Sequence(<<FibPush, IsCapped(c)>>) : c \in Caps}

GateChildren ==
    GateLeaves(1) \cup {Sequence(s) : s \in GateSubs(2)}

CtxTrees ==
    {Sequence(s) : s \in CtxLists} \cup {Selector(s) : s \in CtxLists}
        \cup {ParallelSequence(s) : s \in CtxSubs(2)}
        \cup {ParallelSelector(s) : s \in CtxSubs(2)}
        \cup UNION {Wrappers(c) : c \in CtxChildren}
        \cup {Succeeder(None), Inverter(Succeeder(None))}
        \cup {Sequence(<<Inverter(a), Selector(<<b, c>>)>>) :
                a \in CtxLeaves(1), b \in CtxLeaves(2), c \in CtxLeaves(3)}
        \cup {Selector(<<Sequence(<<a, b>>), Succeeder(c)>>) :
                a \in CtxLeaves(1), b \in CtxLeaves(2), c \in CtxLeaves(3)}

\* ParallelSequence of three gated children (parallel_sequence_test).
ScenarioD ==
    ParallelSequence(<<PaydayWait(0, 19, 5, FALSE), PaydayWait(1, 42, 0, FALSE),
                       PaydayWait(3, 0, 13, FALSE)>>)

DiemTrees ==
    {ScenarioD} \cup {Sequence(s) : s \in GateLists} \cup {Selector(s) : s \in GateLists}
        \cup {ParallelSequence(s) : s \in GateLists}
        \cup {ParallelSelector(s) : s \in GateLists}
        \cup UNION {Wrappers(c) : c \in GateChildren}

\* ------------------------------------------------------------- state
VARIABLES
    tree,           \* BehaviorRunner.tree
    current_tick,   \* BehaviorRunner.current_tick
    context,        \* the caller's context, handed to every proceed
    rets,           \* history: what each proceed call returned
    call,           \* history: the last proceed call (slot and context before
                    \* it, the node it ticked, the NodeResult of that tick)
    exec,           \* history: the child ticks of the ticked node since the
                    \* last fresh tick of the root
    other,          \* a second BehaviorRunner with its own context and
                    \* histories (None while there is only one runner)
    first_run       \* history: the proceed calls of the first execution of
                    \* the tree, kept while it is executed a second time

vars == <<tree, current_tick, context, rets, call, exec, other, first_run>>

calls == Len(rets)

Init ==
    /\ \/ tree \in CtxTrees /\ context = Context(<<>>)
       \/ tree \in DiemTrees /\ context = Diem(0, <<>>)
    /\ current_tick = None
    /\ rets = <<>>
    /\ call = None
    /\ exec = <<>>
    /\ other = None
    /\ first_run = <<>>

\* One runner.proceed(&mut context) and what the histories record of it.
ProceedStep ==
    /\ LET p == proceed(tree, current_tick, context)
       IN /\ current_tick' = p.current_tick
          /\ context' = p.r.ctx
          /\ rets' = Append(rets, p.ret)
          /\ call' = [kind |-> "Call", slot |-> current_tick, ctx |-> context,
                      out |-> p.r.ctx,
                      node |-> p.node, res |-> p.r.res, next |-> p.r.next,
                      ev |-> p.r.ev]
          /\ exec' = IF current_tick = None THEN p.r.ev ELSE exec \o p.r.ev
    /\ UNCHANGED tree

Proceed ==
    /\ calls < MaxCalls
    /\ ProceedStep
    /\ UNCHANGED <<other, first_run>>

\* The caller moves the day forward between two proceed calls (diem.day = 1).
SetDay(d) ==
    /\ "day" \in DOMAIN context
    /\ d > context.day
    /\ context' = [context EXCEPT !.day = d]
    /\ UNCHANGED <<tree, current_tick, rets, call, exec, other, first_run>>

Next ==
    \/ Proceed
    \/ \E d \in Days : SetDay(d)

Spec == Init /\ [][Next]_vars

\* A caller that ticks a LimitedRepeated until it gets a result:
\* while res.is_none() { res = runner.proceed(&mut context); }
\* The children are the ones over Context, each of which reports Running a
\* bounded number of times in every iteration.
LoopInit ==
    /\ tree \in {LimitedRepeated(c, l, 0, None) : c \in CtxChildren, l \in 0..MaxLimit}
    /\ context = Context(<<>>)
    /\ current_tick = None
    /\ rets = <<>>
    /\ call = None
    /\ exec = <<>>
    /\ other = None
    /\ first_run = <<>>

LoopProceed ==
    /\ IF calls = 0 THEN TRUE ELSE rets[calls] = RetNone
    /\ ProceedStep
    /\ UNCHANGED <<other, first_run>>

LoopNext == LoopProceed

LoopSpec == LoopInit /\ [][LoopNext]_vars /\ WF_vars(LoopProceed)


\* ------------------------------------------------------------- histories
\* The value the last proceed call returned.
LastRet == rets[calls]

\* Positions of a history of child ticks at which a child reported res.
Positions(ev, res) == {j \in 1..Len(ev) : ev[j].res = res}

MinOf(S) == CHOOSE x \in S : \A y \in S : x <= y

IsSuccess(e) == e.res = "Success"

\* The child indices that reported Success, in the order they did.
SuccessIdx(ev) ==
    LET s == SelectSeq(ev, IsSuccess) IN [j \in 1..Len(s) |-> s[j].idx]

\* ------------------------------------------------------------- C1
\* C1: after every proceed call the slot holds exactly the continuation the
\* ticked node returned when it reported Running and is empty when it
\* reported Success or Failure; proceed returns None iff is_running() holds
\* afterwards, Some(true) exactly on Success, Some(false) exactly on Failure.
C1_SlotHoldsContinuation ==
    calls > 0 =>
        /\ call.res = "Running" => current_tick = call.next /\ call.next # None
        /\ call.res \in {"Success", "Failure"} => current_tick = None
        /\ LastRet = RetNone <=> is_running(current_tick)
        /\ LastRet = SomeTrue <=> call.res = "Success"
        /\ LastRet = SomeFalse <=> call.res = "Failure"

\* A resumed tick (slot occupied before the call) that ended in Success.
C1_Witness ==
    /\ calls > 1
    /\ call.slot # None
    /\ call.res = "Success"
    /\ current_tick = None

\* ------------------------------------------------------------- C2
\* C2: a proceed call made with the slot empty (the first call, or the call
\* after one that returned Some(_)) ticks the root; a call made with the slot
\* occupied ticks the stored continuation; a tick of a root composite starts
\* with its first original child and goes through the original children in
\* order; the root never changes.
C2_CallTarget ==
    calls > 0 =>
        /\ call.slot = None <=> (calls = 1 \/ rets[calls - 1] # RetNone)
        /\ call.slot = None => call.node = tree
        /\ call.slot # None => call.node = call.slot
        /\ (call.slot = None /\ "sub" \in DOMAIN tree) =>
              \A j \in 1..Len(call.ev) :
                  call.ev[j].fresh /\ call.ev[j].node = tree.sub[j]

C2_RootOrContinuation == [](C2_CallTarget) /\ [][tree' = tree]_vars

\* A restart from the root after a terminal result that followed a resumed
\* tick, with a resumed tick of a continuation that differs from the root
\* following it.
C2_Witness ==
    /\ calls >= 4
    /\ rets[calls - 3] = RetNone
    /\ rets[calls - 2] # RetNone
    /\ rets[calls - 1] = RetNone
    /\ call.slot # None
    /\ call.slot # tree
    /\ call.node = call.slot

\* ------------------------------------------------------------- C3
\* C3: in one execution of a Sequence, when child i is the first child to
\* report Failure, no child with a larger index is ticked in that execution
\* and the Sequence reports Failure in the very tick in which child i failed.
C3_SequenceFailFast ==
    (tree.kind = "Sequence" /\ Positions(exec, "Failure") # {}) =>
        LET j == MinOf(Positions(exec, "Failure"))
            i == exec[j].idx
        IN /\ \A k \in 1..Len(exec) : exec[k].idx <= i
           /\ j = Len(exec)
           /\ call.ev # <<>> /\ call.ev[Len(call.ev)] = exec[j]
           /\ call.res = "Failure"
           /\ LastRet = SomeFalse
           /\ current_tick = None

\* The middle child of three fails when its continuation is ticked.
C3_Witness ==
    /\ tree.kind = "Sequence"
    /\ Len(tree.sub) = 3
    /\ exec # <<>>
    /\ exec[Len(exec)].res = "Failure"
    /\ exec[Len(exec)].idx = 1
    /\ ~exec[Len(exec)].fresh
    /\ LastRet = SomeFalse

\* ------------------------------------------------------------- C4
\* C4: in one execution of a Selector, when child i is the first child to
\* report Success, no child with a larger index is ticked in that execution
\* and the Selector reports Success in the very tick in which child i
\* succeeded.
C4_SelectorSucceedFast ==
    (tree.kind = "Selector" /\ Positions(exec, "Success") # {}) =>
        LET j == MinOf(Positions(exec, "Success"))
            i == exec[j].idx
        IN /\ \A k \in 1..Len(exec) : exec[k].idx <= i
           /\ j = Len(exec)
           /\ call.ev # <<>> /\ call.ev[Len(call.ev)] = exec[j]
           /\ call.res = "Success"
           /\ LastRet = SomeTrue
           /\ current_tick = None

\* The middle child of three succeeds when its continuation is ticked.
C4_Witness ==
    /\ tree.kind = "Selector"
    /\ Len(tree.sub) = 3
    /\ exec # <<>>
    /\ exec[Len(exec)].res = "Success"
    /\ exec[Len(exec)].idx = 1
    /\ ~exec[Len(exec)].fresh
    /\ LastRet = SomeTrue

\* ------------------------------------------------------------- C5
\* C5: a tick of a Sequence resumption node anchored at index k first ticks
\* the stored continuation of child k, never a child before k nor the fresh
\* child k; on Success it ticks the fresh children k+1, k+2, ... in order, on
\* Running it returns a resumption node anchored at k holding the new
\* continuation, on Failure it returns Failure; so no child is started fresh
\* twice in one execution.
C5_ResumeOnlyAnchored ==
    (calls > 0 /\ call.node.kind = "SequenceResume") =>
        LET k == call.node.index
            n == Len(call.node.seq)
            ev == call.ev
            first == ev[1]
            last == ev[Len(ev)]
        IN /\ Len(ev) >= 1
           /\ first.idx = k /\ ~first.fresh /\ first.node = call.node.resume
           /\ \A j \in 2..Len(ev) :
                /\ ev[j].fresh
                /\ ev[j].idx = k + j - 1
                /\ ev[j].node = call.node.seq[ev[j].idx + 1]
                /\ ev[j - 1].res = "Success"
           /\ first.res = "Running" =>
                /\ Len(ev) = 1
                /\ call.res = "Running"
                /\ current_tick = SequenceResume(call.node.seq, k, first.next)
           /\ first.res = "Failure" =>
                Len(ev) = 1 /\ call.res = "Failure" /\ LastRet = SomeFalse
           /\ last.res = "Success" => last.idx = n - 1 /\ call.res = "Success"
           /\ (Len(ev) > 1 /\ last.res = "Running") =>
                current_tick = SequenceResume(call.node.seq, last.idx, last.next)
           /\ (Len(ev) > 1 /\ last.res = "Failure") => call.res = "Failure"
           /\ \A a, b \in 1..Len(exec) :
                (a # b /\ exec[a].fresh /\ exec[b].fresh) => exec[a].idx # exec[b].idx

\* The continuation of child 1 of three succeeds and the scan goes on to the
\* fresh child 2.
C5_Witness ==
    /\ calls > 0
    /\ call.node.kind = "SequenceResume"
    /\ call.node.index = 1
    /\ Len(call.ev) = 2
    /\ call.ev[1].res = "Success"
    /\ call.ev[2].idx = 2 /\ call.ev[2].fresh

\* ------------------------------------------------------------- C6
\* C6: an execution of a Sequence with n children has ended in Success iff
\* every child 0..n-1 reported Success in it, each exactly once, in
\* increasing index order, and no child reported Failure.
C6_SuccessIffAllSucceeded ==
    (tree.kind = "Sequence" /\ calls > 0) =>
        (LastRet = SomeTrue <=>
            /\ SuccessIdx(exec) = [j \in 1..Len(tree.sub) |-> j - 1]
            /\ Positions(exec, "Failure") = {})

\* Three children, all succeeded, the execution took three calls or more.
C6_Witness ==
    /\ tree.kind = "Sequence"
    /\ Len(tree.sub) = 3
    /\ calls >= 3
    /\ LastRet = SomeTrue
    /\ SuccessIdx(exec) = <<0, 1, 2>>

\* ------------------------------------------------------------- C7
\* Sequence of two children that each report Running once and then push
\* their payload (1, then 2) and succeed (sequence_resumes_after_tried_node).
ScenarioA == Sequence(<<TwoStepPush(1, FALSE, 0), TwoStepPush(2, FALSE, 0)>>)

\* C7: scenario A needs exactly three proceed calls, which return None, None,
\* Some(true); the log is [] after the first, [1] after the second and
\* [1, 2] after the third.
C7_ScenarioA ==
    tree = ScenarioA =>
        /\ calls <= 3 => rets = SubSeq(<<RetNone, RetNone, SomeTrue>>, 1, calls)
        /\ calls >= 3 => SubSeq(rets, 1, 3) = <<RetNone, RetNone, SomeTrue>>
        /\ calls = 1 => context.stack = <<>>
        /\ calls = 2 => context.stack = <<1>>
        /\ calls = 3 => context.stack = <<1, 2>>

C7_Witness ==
    /\ tree = ScenarioA
    /\ calls = 3
    /\ LastRet = SomeTrue
    /\ context.stack = <<1, 2>>

\* ------------------------------------------------------------- C8
\* Selector of [fails after one Running tick pushing 1, succeeds after one
\* Running tick pushing 2] (selector_skips_tried_node).
ScenarioB == Selector(<<TwoStepPush(1, TRUE, 0), TwoStepPush(2, FALSE, 0)>>)

\* C8: under a Selector a child that reported Failure is not ticked again in
\* that execution and the next child is tried in the same tick; scenario B
\* returns None, None, Some(true) and leaves the log [1, 2].
C8_SelectorResumption ==
    /\ (calls > 0 /\ call.node.kind \in {"Selector", "SelectorResume"}) =>
          /\ \A a, b \in 1..Len(exec) :
                (a < b /\ exec[a].res = "Failure") => exec[b].idx > exec[a].idx
          /\ \A j \in 1..Len(call.ev) :
                (call.ev[j].res = "Failure" /\ call.ev[j].idx < Len(tree.sub) - 1) =>
                    /\ j < Len(call.ev)
                    /\ call.ev[j + 1].idx = call.ev[j].idx + 1
                    /\ call.ev[j + 1].fresh
    /\ tree = ScenarioB =>
          /\ calls <= 3 => rets = SubSeq(<<RetNone, RetNone, SomeTrue>>, 1, calls)
          /\ calls = 2 => context.stack = <<1>>
          /\ calls = 3 => context.stack = <<1, 2>>

C8_Witness ==
    /\ tree = ScenarioB
    /\ calls = 3
    /\ LastRet = SomeTrue
    /\ context.stack = <<1, 2>>
    /\ exec[2].res = "Failure" /\ ~exec[2].fresh
    /\ exec[3].idx = 1 /\ exec[3].fresh

\* ------------------------------------------------------------- C9
\* LimitedRepeated::new(3, Push1) (limited_repeat_repeats_to_limit).
ScenarioC == LimitedRepeated(Push1, 3, 0, None)

\* C9 as stated: after exactly 3 proceed calls the log is [1,1,1] and the
\* third call returned Some(true).
C9_ThirdCallSucceeds ==
    (tree = ScenarioC /\ calls = 3) =>
        LastRet = SomeTrue /\ context.stack = <<1, 1, 1>>

\* C9: scenario C pushes one 1 in each of its first three proceed calls, all
\* of which return None; the log is [1,1,1] after the third call, and the
\* fourth call returns Some(true) without pushing.
C9_FourthCallSucceeds ==
    tree = ScenarioC =>
        /\ calls <= 4 =>
              rets = SubSeq(<<RetNone, RetNone, RetNone, SomeTrue>>, 1, calls)
        /\ calls = 1 => context.stack = <<1>>
        /\ calls = 2 => context.stack = <<1, 1>>
        /\ calls \in {3, 4} => context.stack = <<1, 1, 1>>

C9_Witness ==
    /\ tree = ScenarioC
    /\ calls = 4
    /\ LastRet = SomeTrue
    /\ context.stack = <<1, 1, 1>>

\* ------------------------------------------------------------- C10
IsTerminal(e) == e.res \in {"Success", "Failure"}

\* C10: when a LimitedRepeated with limit L returns Success its child has
\* reported a terminal result exactly L times since the node was first
\* ticked, and the completed counter equals L.
C10_ExactlyLimitIterations ==
    (tree.kind = "LimitedRepeated" /\ calls > 0 /\ call.res = "Success") =>
        /\ Len(SelectSeq(exec, IsTerminal)) = tree.limit
        /\ call.node.completed = tree.limit

\* ------------------------------------------------------------- C11
\* No tick of a LimitedRepeated or of a continuation it produced reports
\* Failure, and the completed counter of the continuation is the number of
\* terminal results (Success and Failure alike) the child has reported.
C11_NeverFailure ==
    (tree.kind = "LimitedRepeated" /\ calls > 0) =>
        /\ call.node.kind = "LimitedRepeated"
        /\ call.res # "Failure"
        /\ LastRet # SomeFalse
        /\ current_tick # None =>
              /\ current_tick.kind = "LimitedRepeated"
              /\ current_tick.limit = tree.limit
              /\ current_tick.completed = Len(SelectSeq(exec, IsTerminal))

\* C11: when every iteration of the child reports Running finitely often, a
\* caller that keeps calling proceed on a LimitedRepeated eventually gets
\* Some(true), and no tick along the way reports Failure, whichever mix of
\* Success and Failure the iterations end with.
C11_EventuallySuccess ==
    /\ [](C11_NeverFailure)
    /\ <>(IF calls = 0 THEN FALSE ELSE LastRet = SomeTrue)

\* Three iterations ended, some in Success and one in Failure, and the node
\* returned Success.
C11_Witness ==
    /\ tree.kind = "LimitedRepeated"
    /\ tree.limit = 3
    /\ calls > 0
    /\ LastRet = SomeTrue
    /\ Positions(exec, "Failure") # {}
    /\ Positions(exec, "Success") # {}

\* ------------------------------------------------------------- C12
IsRunning(e) == e.res = "Running"

\* The continuations of the children that reported Running, in tick order.
RunningNext(ev) ==
    LET s == SelectSeq(ev, IsRunning) IN [j \in 1..Len(s) |-> s[j].next]

\* a can be got from b by dropping members (same relative order).
RECURSIVE IsSubSeq(_, _)
IsSubSeq(a, b) ==
    IF a = <<>> THEN TRUE
    ELSE IF b = <<>> THEN FALSE
    ELSE IF Head(a) = Head(b) THEN IsSubSeq(Tail(a), Tail(b))
    ELSE IsSubSeq(a, Tail(b))

\* Which child of the root a leaf or its continuation belongs to.
HasKey(n) == n.kind \in {"PaydayWait", "TwoStepPush"}
ChildKey(n) == IF n.kind = "PaydayWait" THEN n.index ELSE n.payload

\* C12: a tick of a ParallelSequence ticks its working set in order and stops
\* with Failure at the first child Failure; otherwise the next working set is
\* the continuations of the children that reported Running, in order (never
\* longer than the working set, a subsequence of it when the children
\* continue as themselves), Success is returned exactly when that set is
\* empty, and a child that reported Success is not ticked again.
C12_WorkingSetShrinks ==
    (calls > 0 /\ call.node.kind = "ParallelSequence") =>
        LET ws == call.node.sub
            ev == call.ev
            failed == Positions(ev, "Failure")
            new == RunningNext(ev)
        IN /\ Len(ev) <= Len(ws)
           /\ \A j \in 1..Len(ev) : ev[j].idx = j - 1 /\ ev[j].node = ws[j]
           /\ failed \subseteq {Len(ev)}
           /\ failed # {} <=> call.res = "Failure"
           /\ failed = {} => Len(ev) = Len(ws)
           /\ call.res = "Success" <=> (failed = {} /\ new = <<>>)
           /\ call.res = "Running" =>
                /\ current_tick = ParallelSequence(new)
                /\ Len(new) <= Len(ws)
                /\ (\A j \in 1..Len(ws) : ws[j].kind = "PaydayWait") => IsSubSeq(new, ws)
           /\ \A a, b \in 1..Len(exec) :
                (a < b /\ exec[a].res = "Success"
                       /\ HasKey(exec[a].node) /\ HasKey(exec[b].node)) =>
                    ChildKey(exec[b].node) # ChildKey(exec[a].node)

\* A working set of two, left of three, shrinks to one.
C12_Witness ==
    /\ tree = ScenarioD
    /\ calls > 1
    /\ call.node.kind = "ParallelSequence"
    /\ Len(call.node.sub) = 2
    /\ call.res = "Running"
    /\ Len(current_tick.sub) = 1

\* ------------------------------------------------------------- C13
\* No proceed call before the last one returned Some(_).
FirstExecution == \A j \in 1..(calls - 1) : rets[j] = RetNone

\* How often child c reported Success in a history of child ticks.
SuccessCount(ev, c) ==
    Cardinality({j \in 1..Len(ev) : ev[j].res = "Success" /\ ev[j].node = c})

\* C13: in scenario D every proceed call returns None while the day has not
\* passed some child's threshold, and the call at which the day has passed
\* all of them returns Some(true); a child writes its slot once, when its
\* threshold is passed, and is not ticked again; slots no child wrote hold
\* the default 0 (the log ends [19, 42, 0, 0]).
C13_ScenarioD ==
    (tree = ScenarioD /\ calls > 0 /\ FirstExecution) =>
        LET day == call.ctx.day
            kids == {tree.sub[j] : j \in 1..Len(tree.sub)}
            done == {c \in kids : SuccessCount(exec, c) > 0}
            paydays == context.paydays
        IN /\ LastRet = RetNone <=> \E c \in kids : ~(c.time < day)
           /\ LastRet = SomeTrue <=> \A c \in kids : c.time < day
           /\ \A c \in kids : SuccessCount(exec, c) = IF c.time < day THEN 1 ELSE 0
           /\ \A c \in done : paydays[c.index + 1] = c.payload
           /\ \A i \in 1..Len(paydays) :
                (\A c \in done : c.index # i - 1) => paydays[i] = 0
           /\ LastRet = SomeTrue => paydays = <<19, 42, 0, 0>>

\* The run of the test: four calls, the last one on a day past every
\* threshold.
C13_Witness ==
    /\ tree = ScenarioD
    /\ calls = 4
    /\ FirstExecution
    /\ LastRet = SomeTrue
    /\ call.ctx.day = 21
    /\ context.paydays = <<19, 42, 0, 0>>

\* ------------------------------------------------------------- C14
\* C14: a tick of a ParallelSelector ticks its working set in order and stops
\* with Success at the first child Success; a child that reports Failure is
\* dropped and not ticked again; with no Success the tick returns Failure
\* when no child is still Running and otherwise Running with exactly the
\* continuations of the Running children, in order.
C14_ParallelSelectorTick ==
    (calls > 0 /\ call.node.kind = "ParallelSelector") =>
        LET ws == call.node.sub
            ev == call.ev
            won == Positions(ev, "Success")
            new == RunningNext(ev)
        IN /\ Len(ev) <= Len(ws)
           /\ \A j \in 1..Len(ev) : ev[j].idx = j - 1 /\ ev[j].node = ws[j]
           /\ won \subseteq {Len(ev)}
           /\ won # {} <=> call.res = "Success"
           /\ won = {} => Len(ev) = Len(ws)
           /\ call.res = "Failure" <=> (won = {} /\ new = <<>>)
           /\ call.res = "Running" <=> (won = {} /\ new # <<>>)
           /\ call.res = "Running" => current_tick = ParallelSelector(new)
           /\ \A a, b \in 1..Len(exec) :
                (a < b /\ exec[a].res = "Failure"
                       /\ HasKey(exec[a].node) /\ HasKey(exec[b].node)) =>
                    ChildKey(exec[b].node) # ChildKey(exec[a].node)

\* One of two children was dropped on Failure in an earlier tick; the one
\* left succeeds in a later tick.
C14_Witness ==
    /\ calls > 1
    /\ tree.kind = "ParallelSelector"
    /\ Len(tree.sub) = 2
    /\ call.slot # None
    /\ Len(call.node.sub) = 1
    /\ call.res = "Success"
    /\ Positions(exec, "Failure") # {}

\* ------------------------------------------------------------- C15
\* C15: every tick of a Repeated node and of every continuation it produced
\* reports Running, so a Runner over a Repeated never returns Some(_) and
\* is_running() holds after every proceed call.
C15_RepeatedNeverEnds ==
    (tree.kind = "Repeated" /\ calls > 0) =>
        /\ call.node.kind = "Repeated"
        /\ call.res = "Running"
        /\ \A j \in 1..calls : rets[j] = RetNone
        /\ is_running(current_tick)
        /\ current_tick.kind = "Repeated"
        /\ current_tick.child = tree.child

\* The resumed iteration ended in Failure and a fresh one was started in the
\* same tick; the node is still Running.
C15_Witness ==
    /\ tree.kind = "Repeated"
    /\ calls >= 3
    /\ Len(call.ev) = 2
    /\ call.ev[1].res = "Failure"
    /\ LastRet = RetNone

\* ------------------------------------------------------------- C16
\* C16: a tick of a RepeatedUntilFailure (or of a continuation it produced)
\* returns Success iff the child, fresh or resumed, has reported Failure in
\* that execution, and does so in the tick of the child's first Failure;
\* child Successes never end the node, and it never returns Failure.
C16_SuccessIffChildFailed ==
    (tree.kind = "RepeatedUntilFailure" /\ calls > 0) =>
        LET failed == Positions(exec, "Failure")
        IN /\ call.node.kind = "RepeatedUntilFailure"
           /\ call.res # "Failure"
           /\ LastRet # SomeFalse
           /\ call.res = "Success" <=> failed # {}
           /\ failed \subseteq {Len(exec)}
           /\ failed # {} => (call.ev # <<>> /\ call.ev[Len(call.ev)] = exec[Len(exec)])
           /\ failed = {} => (LastRet = RetNone /\ current_tick.kind = "RepeatedUntilFailure")

\* repeat_until_failure_stops_on_failure with cap 1: two iterations succeed,
\* the third pushes 2 and fails the cap.
C16_Witness ==
    /\ tree = RepeatedUntilFailure(None, Sequence(<<FibPush, IsCapped(1)>>))
    /\ calls = 3
    /\ FirstExecution
    /\ LastRet = SomeTrue
    /\ context.stack = <<1, 1, 2>>
    /\ Cardinality(Positions(exec, "Success")) = 2

\* ------------------------------------------------------------- C17
\* C17 as stated: whenever the child of a RepeatedUntilFailure reports
\* Success in a tick, as a fresh child or as the stored resumption, it is
\* the last child tick of that call and the call returns Running with a
\* continuation that holds no resumption.
C17_SuccessEndsTick ==
    (tree.kind = "RepeatedUntilFailure" /\ calls > 0) =>
        \A j \in 1..Len(call.ev) :
            call.ev[j].res = "Success" =>
                /\ j = Len(call.ev)
                /\ call.res = "Running"
                /\ current_tick = RepeatedUntilFailure(None, tree.child)

\* C17: when the fresh child of a RepeatedUntilFailure reports Success the
\* tick returns Running with a continuation that holds no resumption and the
\* child is not ticked again in that call; when the stored resumption
\* reports Success the original child is ticked fresh once in the same call
\* and the tick returns what that fresh tick gives: Running holding its
\* continuation, Running with no resumption, or Success on its Failure.
C17_FreshSuccessRestarts ==
    (tree.kind = "RepeatedUntilFailure" /\ calls > 0) =>
        LET ev == call.ev
            last == ev[Len(ev)]
        IN /\ Len(ev) \in {1, 2}
           /\ \A j \in 1..Len(ev) :
                (ev[j].fresh /\ ev[j].res = "Success") =>
                    /\ j = Len(ev)
                    /\ call.res = "Running"
                    /\ current_tick = RepeatedUntilFailure(None, tree.child)
           /\ (~ev[1].fresh /\ ev[1].res = "Success") =>
                /\ Len(ev) = 2
                /\ ev[2].fresh /\ ev[2].node = tree.child
                /\ ev[2].res = "Running" =>
                      current_tick = RepeatedUntilFailure(ev[2].next, tree.child)
                /\ ev[2].res = "Failure" => call.res = "Success"
           /\ Len(ev) = 2 => (~ev[1].fresh /\ ev[1].res = "Success")

\* The stored resumption succeeded and the fresh child ticked after it in
\* the same call is Running: the continuation holds a resumption.
C17_Witness ==
    /\ tree.kind = "RepeatedUntilFailure"
    /\ calls > 1
    /\ Len(call.ev) = 2
    /\ ~call.ev[1].fresh /\ call.ev[1].res = "Success"
    /\ call.ev[2].res = "Running"
    /\ current_tick.resume # None

\* ------------------------------------------------------------- C18
\* C18: every proceed call of a runner over Inverter(child) ticks exactly
\* one node, the child on a fresh call and the child's continuation on a
\* resumed one; while that node reports Running the call returns None and
\* the continuation is an Inverter wrapping the child's continuation; when it
\* reports Success the call returns Some(false), when it reports Failure
\* Some(true). So k Running ticks give k None returns and then the opposite
\* of the terminal result.
C18_InverterInvertsOnce ==
    (tree.kind = "Inverter" /\ calls > 0) =>
        /\ Len(call.ev) = 1
        /\ call.node.kind = "Inverter"
        /\ call.ev[1].node = call.node.child
        /\ call.slot = None => call.ev[1].node = tree.child
        /\ call.ev[1].res = "Running" =>
              /\ LastRet = RetNone
              /\ current_tick = Inverter(call.ev[1].next)
        /\ call.ev[1].res = "Success" => LastRet = SomeFalse /\ current_tick = None
        /\ call.ev[1].res = "Failure" => LastRet = SomeTrue /\ current_tick = None

\* A child that was Running on the previous call fails on the resumed one.
C18_Witness ==
    /\ tree.kind = "Inverter"
    /\ calls > 1
    /\ rets[calls - 1] = RetNone
    /\ call.slot # None
    /\ call.ev[1].res = "Failure"
    /\ LastRet = SomeTrue

\* ------------------------------------------------------------- C19
\* C19: a Succeeder never returns Failure; with no child it returns Success
\* without ticking anything and leaves the context as it was; with a child it
\* returns Success when the ticked node reports Success or Failure, and while
\* it reports Running the call returns None with a continuation that is a
\* Succeeder wrapping the child's continuation.
C19_SucceederNeverFails ==
    (tree.kind = "Succeeder" /\ calls > 0) =>
        /\ LastRet # SomeFalse
        /\ call.node.kind = "Succeeder"
        /\ call.node.child = None =>
              /\ LastRet = SomeTrue
              /\ call.ev = <<>>
              /\ call.out = call.ctx
        /\ call.node.child # None =>
              /\ Len(call.ev) = 1
              /\ call.ev[1].node = call.node.child
              /\ call.ev[1].res \in {"Success", "Failure"} => LastRet = SomeTrue
              /\ call.ev[1].res = "Running" =>
                    /\ LastRet = RetNone
                    /\ current_tick = Succeeder(call.ev[1].next)

\* A child that was Running on the previous call fails on the resumed one
\* and the Succeeder still returns Success.
C19_Witness ==
    /\ tree.kind = "Succeeder"
    /\ calls > 1
    /\ rets[calls - 1] = RetNone
    /\ call.slot # None
    /\ call.ev[1].res = "Failure"
    /\ LastRet = SomeTrue

\* The childless Succeeder has been ticked.
C19_WitnessNoChild ==
    /\ tree = Succeeder(None)
    /\ calls > 0
    /\ LastRet = SomeTrue

\* ------------------------------------------------------------- C20
\* C20: a LimitedRepeated constructed with limit zero returns Success on its
\* first tick, ticks its child zero times and leaves the context unchanged.
C20_LimitZero ==
    (tree.kind = "LimitedRepeated" /\ tree.limit = 0 /\ calls > 0) =>
        /\ rets[1] = SomeTrue
        /\ LastRet = SomeTrue
        /\ call.ev = <<>>
        /\ exec = <<>>
        /\ call.out = call.ctx

\* A limit-zero node over a child that would change the context was ticked.
C20_Witness ==
    /\ tree.kind = "LimitedRepeated"
    /\ tree.limit = 0
    /\ tree.child.kind = "Push1"
    /\ calls > 0
    /\ LastRet = SomeTrue
    /\ context = Context(<<>>)

\* ------------------------------------------------------------- C21
\* C21: a composite built with no children resolves on every tick of the
\* root with its identity result, ticks nothing and leaves the context as it
\* was: Success for an empty Sequence and an empty ParallelSequence, Failure
\* for an empty Selector and an empty ParallelSelector; it never returns
\* Running.
C21_EmptyComposite ==
    (/\ tree.kind \in {"Sequence", "Selector", "ParallelSequence", "ParallelSelector"}
     /\ tree.sub = <<>>
     /\ calls > 0) =>
        /\ call.node = tree
        /\ call.ev = <<>>
        /\ call.out = call.ctx
        /\ current_tick = None
        /\ \A j \in 1..calls :
              rets[j] = IF tree.kind \in {"Sequence", "ParallelSequence"}
                        THEN SomeTrue ELSE SomeFalse

\* The empty ParallelSelector has been ticked and reported Failure.
C21_Witness ==
    /\ tree = ParallelSelector(<<>>)
    /\ calls > 0
    /\ LastRet = SomeFalse
    /\ call.ev = <<>>

\* The empty Sequence has been ticked and reported Success.
C21_WitnessSequence ==
    /\ tree = Sequence(<<>>)
    /\ calls > 0
    /\ LastRet = SomeTrue

\* ------------------------------------------------------------- re-execution
\* A Sequence, Selector, ParallelSequence or ParallelSelector is executed by
\* a runner until it returns Some(_), and then executed again by the same
\* runner from the same initial context, the caller making the same changes
\* to the context between ticks as the first time.
ReplayTrees ==
    {t \in CtxTrees \cup DiemTrees :
        t.kind \in {"Sequence", "Selector", "ParallelSequence", "ParallelSelector"}}

ReplayInit ==
    /\ \/ tree \in ReplayTrees \cap CtxTrees /\ context = Context(<<>>)
       \/ tree \in ReplayTrees \cap DiemTrees /\ context = Diem(0, <<>>)
    /\ current_tick = None
    /\ rets = <<>>
    /\ call = None
    /\ exec = <<>>
    /\ other = None
    /\ first_run = <<>>

\* The first execution is under way: no call yet, or only None so far.
InFirstRun ==
    /\ calls = Len(first_run)
    /\ IF calls = 0 THEN TRUE ELSE rets[calls] = RetNone

\* The number of the next call of the second execution (0 when there is none).
SecondCall ==
    IF /\ Len(first_run) > 0
       /\ first_run[Len(first_run)].res # "Running"
       /\ calls < 2 * Len(first_run)
    THEN calls - Len(first_run) + 1
    ELSE 0

FirstProceed ==
    /\ InFirstRun
    /\ calls < MaxCalls
    /\ ProceedStep
    /\ first_run' = Append(first_run, call')
    /\ UNCHANGED other

FirstSetDay(d) ==
    /\ InFirstRun
    /\ SetDay(d)

\* The context the caller hands to call k of the second execution: the
\* initial context for the first call, afterwards the context the previous
\* call left with the day set as it was for call k of the first execution.
ReplayContext(k) ==
    IF k = 1 THEN first_run[1].ctx
    ELSE IF "day" \in DOMAIN context
         THEN [context EXCEPT !.day = first_run[k].ctx.day]
         ELSE context

SecondProceed ==
    /\ SecondCall > 0
    /\ LET cin == ReplayContext(SecondCall)
           p == proceed(tree, current_tick, cin)
       IN /\ current_tick' = p.current_tick
          /\ context' = p.r.ctx
          /\ rets' = Append(rets, p.ret)
          /\ call' = [kind |-> "Call", slot |-> current_tick, ctx |-> cin,
                      out |-> p.r.ctx,
                      node |-> p.node, res |-> p.r.res, next |-> p.r.next,
                      ev |-> p.r.ev]
          /\ exec' = IF current_tick = None THEN p.r.ev ELSE exec \o p.r.ev
    /\ UNCHANGED <<tree, other, first_run>>

ReplayNext ==
    \/ FirstProceed
    \/ \E d \in Days : FirstSetDay(d)
    \/ SecondProceed

ReplaySpec == ReplayInit /\ [][ReplayNext]_vars

LeafKinds ==
    {"TwoStepPush", "Push1", "SucceedAfterSteps", "PaydayWait", "FibPush", "IsCapped"}

IsLeaf(n) == n.kind \in LeafKinds

\* The context that the leaf ticks of a history of child ticks leave, applied
\* to ctx in tick order; the ticks of a composite child are those of its own
\* children.
RECURSIVE Effects(_, _)
Effects(ev, ctx) ==
    IF ev = <<>> THEN ctx
    ELSE LET e == Head(ev)
             c == IF IsLeaf(e.node) THEN Tick(e.node, ctx).ctx ELSE Effects(e.sub, ctx)
         IN Effects(Tail(ev), c)

\* Every leaf tick of the history reported what that leaf reports when it is
\* ticked on the context the earlier leaf ticks left.
RECURSIVE LeafTicksMatch(_, _)
LeafTicksMatch(ev, ctx) ==
    IF ev = <<>> THEN TRUE
    ELSE LET e == Head(ev)
         IN /\ IF IsLeaf(e.node)
               THEN e.res = Tick(e.node, ctx).res /\ e.next = Tick(e.node, ctx).next
               ELSE LeafTicksMatch(e.sub, ctx)
            /\ LeafTicksMatch(Tail(ev), Effects(<<e>>, ctx))

\* Every child tick of the history leaves the context it is given unchanged.
RECURSIVE EveryChildIdle(_, _)
EveryChildIdle(ev, ctx) ==
    IF ev = <<>> THEN TRUE
    ELSE Effects(<<Head(ev)>>, ctx) = ctx /\ EveryChildIdle(Tail(ev), ctx)

CompositeKinds ==
    {"Sequence", "SequenceResume", "Selector", "SelectorResume", "ParallelSequence",
     "ParallelSelector", "Repeated", "LimitedRepeated", "RepeatedUntilFailure",
     "Inverter", "Succeeder"}

\* C23: the context a tick of a composite leaves is the context it was given
\* with the effects of the leaves it ticked, directly or through composite
\* children, applied in tick order; it is the given context when no child
\* was ticked or every ticked child left it unchanged; and the runner hands
\* that context back to the caller as it is.
C23_OnlyLeavesTouchContext ==
    calls > 0 =>
        /\ call.node.kind \in CompositeKinds
        /\ LeafTicksMatch(call.ev, call.ctx)
        /\ call.out = Effects(call.ev, call.ctx)
        /\ call.ev = <<>> => call.out = call.ctx
        /\ EveryChildIdle(call.ev, call.ctx) => call.out = call.ctx
        /\ IF "day" \in DOMAIN context
           THEN context.paydays = call.out.paydays
           ELSE context = call.out

\* A Repeated ticked its resumption, which changed the context, and then a
\* fresh child in the same call.
C23_Witness ==
    /\ calls > 1
    /\ call.node.kind = "Repeated"
    /\ Len(call.ev) = 2
    /\ call.out # call.ctx
    /\ call.out = Effects(call.ev, call.ctx)

\* A Sequence ticked children and none of them changed the context.
C23_WitnessIdle ==
    /\ calls > 0
    /\ call.node.kind = "Sequence"
    /\ call.ev # <<>>
    /\ EveryChildIdle(call.ev, call.ctx)

\* ------------------------------------------------------------- two runners
\* Two BehaviorRunners built over the same root (tree.clone() shares the
\* node value), each ticked with its own context, their proceed calls
\* interleaved in any order.
Runner(slot, ctx, returned, last) ==
    [kind |-> "Runner", current_tick |-> slot, context |-> ctx, rets |-> returned,
     call |-> last]

\* The contexts the two callers start with.
OwnContext == Context(<<>>)
OwnDiem == Diem(0, <<>>)
OtherContext == Context(<<1>>)
OtherDiem == Diem(6, <<>>)

PairInit ==
    /\ \/ /\ tree \in CtxTrees
          /\ context = OwnContext
          /\ other = Runner(None, OtherContext, <<>>, None)
       \/ /\ tree \in DiemTrees
          /\ context = OwnDiem
          /\ other = Runner(None, OtherDiem, <<>>, None)
    /\ current_tick = None
    /\ rets = <<>>
    /\ call = None
    /\ exec = <<>>
    /\ first_run = <<>>

\* Mutant: the second runner keeps its continuation where the first runner
\* keeps its own, as if the slot belonged to the shared tree.
OtherProceed_SharesSlot ==
    /\ Len(other.rets) < MaxCalls
    /\ LET p == proceed(tree, current_tick, other.context)
       IN /\ other' = Runner(p.current_tick, p.r.ctx, Append(other.rets, p.ret),
                             [kind |-> "Call", slot |-> current_tick,
                              ctx |-> other.context, out |-> p.r.ctx,
                              node |-> p.node, res |-> p.r.res, next |-> p.r.next,
                              ev |-> p.r.ev])
          /\ current_tick' = p.current_tick
    /\ UNCHANGED <<tree, context, rets, call, exec, first_run>>

\* One proceed of the second runner on its own context.
OtherProceed ==
    /\ Len(other.rets) < MaxCalls
    /\ LET p == proceed(tree, other.current_tick, other.context)
       IN other' = Runner(p.current_tick, p.r.ctx, Append(other.rets, p.ret),
                          [kind |-> "Call", slot |-> other.current_tick,
                           ctx |-> other.context, out |-> p.r.ctx,
                           node |-> p.node, res |-> p.r.res, next |-> p.r.next,
                           ev |-> p.r.ev])
    /\ UNCHANGED <<tree, current_tick, context, rets, call, exec, first_run>>

PairNext ==
    \/ Proceed
    \/ OtherProceed

PairSpec == PairInit /\ [][PairNext]_vars

\* What k proceed calls of a runner that runs alone over root return and the
\* context each of them leaves, starting from slot and ctx.
RECURSIVE Alone(_, _, _, _)
Alone(root, slot, ctx, k) ==
    IF k = 0 THEN <<>>
    ELSE LET p == proceed(root, slot, ctx)
         IN <<[ret |-> p.ret, ctx |-> p.r.ctx]>>
                \o Alone(root, p.current_tick, p.r.ctx, k - 1)

\* ------------------------------------------------------------- C24
\* The returns and the context of a runner after its calls are those of a
\* runner that made as many calls alone from the initial context ctx0.
AsAlone(returned, ctx, ctx0) ==
    LET a == Alone(tree, None, ctx0, Len(returned))
    IN /\ returned = [j \in 1..Len(returned) |-> a[j].ret]
       /\ ctx = IF Len(returned) = 0 THEN ctx0 ELSE a[Len(returned)].ctx

\* A continuation of a root keeps the root's own children as they were.
KeepsChildren(slot) ==
    /\ slot.kind \in {"SequenceResume", "SelectorResume"} => slot.seq = tree.sub
    /\ slot.kind \in {"Repeated", "LimitedRepeated", "RepeatedUntilFailure"} =>
          slot.child = tree.child

C24_EachAsAlone ==
    /\ AsAlone(rets, context, IF "day" \in DOMAIN context THEN OwnDiem ELSE OwnContext)
    /\ AsAlone(other.rets, other.context,
               IF "day" \in DOMAIN context THEN OtherDiem ELSE OtherContext)
    /\ current_tick = None => (calls > 0 => call.res # "Running")
    /\ KeepsChildren(current_tick)
    /\ KeepsChildren(other.current_tick)
    /\ (calls > 0 /\ call.slot = None) => call.node = tree
    /\ (Len(other.rets) > 0 /\ other.call.slot = None) => other.call.node = tree

C25_RepeatedSteps ==
    (tree.kind = "Repeated" /\ calls > 0) =>
        LET ev == call.ev
            n == call.node
            last == ev[Len(ev)]
        IN /\ n.kind = "Repeated" /\ n.child = tree.child
           /\ Len(ev) \in {1, 2}
           /\ n.resume # None => (~ev[1].fresh /\ ev[1].node = n.resume)
           /\ n.resume = None => Len(ev) = 1
           /\ (~ev[1].fresh /\ ev[1].res = "Running") => Len(ev) = 1
           /\ (~ev[1].fresh /\ ev[1].res \in {"Success", "Failure"}) => Len(ev) = 2
           /\ Len(ev) = 2 => ~ev[1].fresh
           /\ (n.resume = None \/ Len(ev) = 2) => (last.fresh /\ last.node = tree.child)
           /\ current_tick.kind = "Repeated" /\ current_tick.child = tree.child
           /\ last.res = "Running" => current_tick.resume = last.next
           /\ current_tick.resume # None <=> last.res = "Running"

\* The resumption failed and the fresh child ticked after it in the same
\* call is Running.
C25_Witness ==
    /\ tree.kind = "Repeated"
    /\ calls > 1
    /\ Len(call.ev) = 2
    /\ call.ev[1].res = "Failure"
    /\ call.ev[2].res = "Running"
    /\ current_tick.resume = call.ev[2].next

\* ------------------------------------------------------------- C26
\* C26: a LimitedRepeated ticks its child only while the number of completed
\* iterations is below the limit: at every child tick of a call, the count
\* the node was entered with plus the child ticks that already terminated in
\* that call is less than the limit; and a call that returns Success leaves
\* no iteration that was started and is still Running.
C26_NoTickAtLimit ==
    (tree.kind = "LimitedRepeated" /\ calls > 0) =>
        /\ \A j \in 1..Len(call.ev) :
              call.node.completed
                  + Cardinality({i \in 1..(j - 1) : call.ev[i].res # "Running"})
                  < tree.limit
        /\ call.res = "Success" => call.node.resume = None

\* ------------------------------------------------------------- dual trees
\* A Selector and the Sequence of its inverted children under an Inverter,
\* each with a runner of its own, ticked side by side on equal contexts.
Invert(cs) == [j \in 1..Len(cs) |-> Inverter(cs[j])]

Dual(cs) == Inverter(Sequence(Invert(cs)))

\* Children lists: leaves over Context, gated leaves over Diem, and lists
\* with composite children.
DualCtxLists ==
    CtxLists
        \cup {<<Succeeder(a), Sequence(<<b, c>>)>> :
                a \in CtxLeaves(1), b \in CtxLeaves(2), c \in CtxLeaves(3)}

DualInit ==
    /\ \/ /\ tree \in {Selector(cs) : cs \in DualCtxLists}
          /\ context = Context(<<>>)
       \/ /\ tree \in {Selector(cs) : cs \in GateLists}
          /\ context = Diem(0, <<>>)
    /\ other = Runner(None, context, <<>>, None)
    /\ current_tick = None
    /\ rets = <<>>
    /\ call = None
    /\ exec = <<>>
    /\ first_run = <<>>

\* Both runners make their next proceed call.
DualProceed ==
    /\ calls < MaxCalls
    /\ ProceedStep
    /\ LET p == proceed(Dual(tree.sub), other.current_tick, other.context)
       IN other' = Runner(p.current_tick, p.r.ctx, Append(other.rets, p.ret),
                          [kind |-> "Call", slot |-> other.current_tick,
                           ctx |-> other.context, out |-> p.r.ctx,
                           node |-> p.node, res |-> p.r.res, next |-> p.r.next,
                           ev |-> p.r.ev])
    /\ UNCHANGED first_run

\* The callers move the day forward in both contexts.
DualSetDay(d) ==
    /\ "day" \in DOMAIN context
    /\ d > context.day
    /\ context' = [context EXCEPT !.day = d]
    /\ other' = [other EXCEPT !.context.day = d]
    /\ UNCHANGED <<tree, current_tick, rets, call, exec, first_run>>

DualNext ==
    \/ DualProceed
    \/ \E d \in Days : DualSetDay(d)

DualSpec == DualInit /\ [][DualNext]_vars

\* ------------------------------------------------------------- C27
Opposite(res) ==
    CASE res = "Success" -> "Failure"
      [] res = "Failure" -> "Success"
      [] OTHER -> res

\* The continuation of the dual tree that stands for the Selector's slot.
DualOf(slot) ==
    IF slot = None THEN None
    ELSE Inverter(SequenceResume(Invert(slot.seq), slot.index, Inverter(slot.resume)))

\* C27: Selector(cs) and Inverter(Sequence of Inverter(c) for c in cs), run
\* side by side from the same context, return the same value on every call
\* and leave the same context; in every call the Sequence ticks, in the same
\* order and at the same indices, the Inverters of the nodes the Selector
\* ticks, each of these nodes reports the same to both, and the two
\* continuations stand for each other.
C27_SelectorIsDualOfSequence ==
    (other # None /\ calls > 0) =>
        /\ other.rets = rets
        /\ other.context = context
        /\ other.call.out = call.out
        /\ other.current_tick = DualOf(current_tick)
        /\ Len(other.call.ev) = 1
        /\ LET se == call.ev
               de == other.call.ev[1].sub
           IN /\ Len(de) = Len(se)
              /\ \A j \in 1..Len(se) :
                    /\ de[j].idx = se[j].idx
                    /\ de[j].fresh = se[j].fresh
                    /\ de[j].node = Inverter(se[j].node)
                    /\ de[j].res = Opposite(se[j].res)
                    /\ Len(de[j].sub) = 1
                    /\ de[j].sub[1].node = se[j].node
                    /\ de[j].sub[1].res = se[j].res
                    /\ de[j].sub[1].next = se[j].next
                    /\ de[j].sub[1].sub = se[j].sub

\* A resumed call in which the continuation fails and a later child
\* succeeds, ending both trees with Success.
C27_Witness ==
    /\ other # None
    /\ calls > 1
    /\ call.slot # None
    /\ Len(call.ev) >= 2
    /\ call.ev[1].res = "Failure"
    /\ call.res = "Success"
    /\ other.call.res = "Success"
    /\ other.call.node.kind = "Inverter"
    /\ context # Context(<<>>)

\* ------------------------------------------------------------- finite trees
\* A caller that ticks a tree built only from Sequence, Selector,
\* ParallelSequence, ParallelSelector, Inverter and Succeeder until it gets a
\* result; the leaves are the ones over Context, each of which reports
\* Running a bounded number of times.
FiniteKinds ==
    {"Sequence", "Selector", "ParallelSequence", "ParallelSelector", "Inverter",
     "Succeeder"}

FiniteTrees == {t \in CtxTrees : t.kind \in FiniteKinds}

FiniteInit ==
    /\ tree \in FiniteTrees
    /\ context = Context(<<>>)
    /\ current_tick = None
    /\ rets = <<>>
    /\ call = None
    /\ exec = <<>>
    /\ other = None
    /\ first_run = <<>>

FiniteSpec == FiniteInit /\ [][LoopNext]_vars /\ WF_vars(LoopProceed)

\* ------------------------------------------------------------- C28
\* The Running ticks the leaves of a node have left before each of them
\* reports a terminal result.
RECURSIVE RunningLeft(_)
RECURSIVE RunningLeftOf(_)
RunningLeftOf(sub) ==
    IF sub = <<>> THEN 0 ELSE RunningLeft(Head(sub)) + RunningLeftOf(Tail(sub))

RunningLeft(n) ==
    CASE n.kind = "TwoStepPush" -> IF n.step < 1 THEN 1 ELSE 0
      [] n.kind = "SucceedAfterSteps" -> IF n.step < n.steps THEN n.steps - n.step ELSE 0
      [] n.kind \in {"Sequence", "Selector", "ParallelSequence", "ParallelSelector"} ->
           RunningLeftOf(n.sub)
      [] n.kind \in {"Inverter", "Succeeder"} ->
           IF n.child = None THEN 0 ELSE RunningLeft(n.child)
      [] OTHER -> 0

\* Every None the runner returned was paid for by a Running tick of a leaf.
C28_WithinBudget ==
    /\ Cardinality({j \in 1..calls : rets[j] = RetNone}) <= RunningLeft(tree)
    /\ calls <= RunningLeft(tree) + 1

\* C28: a caller that keeps calling proceed on a finite tree of Sequence,
\* Selector, ParallelSequence, ParallelSelector, Inverter and Succeeder
\* nodes whose leaves report Running a bounded number of times eventually
\* gets Some(_), after no more None returns than the leaves have Running
\* ticks to give.
C28_EventuallySome ==
    /\ [](C28_WithinBudget)
    /\ <>(IF calls = 0 THEN FALSE ELSE LastRet # RetNone)

\* A nested tree returned None several times and then a result.
C28_Witness ==
    /\ tree.kind \in {"Sequence", "Selector"}
    /\ calls >= 3
    /\ rets[1] = RetNone
    /\ rets[2] = RetNone
    /\ LastRet # RetNone
    /\ \E j \in 1..Len(tree.sub) : ~IsLeaf(tree.sub[j])

====
